---- MODULE Spec2Model ----
(***************************************************************************)
(* Model of the PC Performance Test Suite (src/main.py).                   *)
(*                                                                         *)
(* Specifications:                                                         *)
(*   SpecWorker - one call of _cpu_burn_worker(duration, num_slices), the  *)
(*                time-boxed runner, with the wall clock as an input;      *)
(*   Spec       - one benchmark invocation: main(), run_all_tests() and    *)
(*                the workloads it drives, the process pool of the         *)
(*                multi-core test, the temporary directory and its files;  *)
(*   FairSpec   - Spec, with the program and its worker processes making   *)
(*                progress whenever they can (the user need not interrupt).*)
(*                                                                         *)
(* Time is measured in integer ticks.  Quotients the code computes in      *)
(* floating point are kept exact: a slice cutoff is stored multiplied by   *)
(* the slice count, a rate is a fraction <<numerator, denominator>>.       *)
(* Inside the suite a call of _cpu_burn_worker(slice_dur, 1) is one step   *)
(* that reports some operations count and duration.  Errors of the         *)
(* environment are the ones a workload can meet (files, worker processes); *)
(* shutil.rmtree in cleanup() is taken to succeed, and the user's          *)
(* interrupt arrives inside the try block of run_all_tests.                *)
(***************************************************************************)
EXTENDS Integers, Sequences, FiniteSets, Bags

\* ------------------------------------------------------------------ bounds
MaxDuration == 4      \* largest duration handed to _cpu_burn_worker
MaxSlices == 3        \* largest num_slices handed to _cpu_burn_worker
MaxStep == 3          \* largest advance of the clock between two readings
MaxIter == 4          \* cap on the iterations of the burn loop
MaxWorkers == 2       \* largest worker count of the multi-core test
MaxOps == 1           \* most operations one worker call reports
MaxWorkerElapsed == 1 \* longest duration one worker call reports
MaxElapsed == 2       \* longest measured time of a drive or CPU phase

\* ------------------------------------------------------ program constants
Slices == 10          \* slices = 10
FileSizeMb == 100     \* file_size_mb=100
NumOperations == 1000 \* num_operations=1000

VARIABLES
  \* ---- _cpu_burn_worker
  wpc,            \* position in the worker: "test", "body", "exit", "done"
  duration,       \* argument
  num_slices,     \* argument
  now,            \* time.time() - start_time at the latest reading
  prime_count,
  operations,
  current,
  ops_slices,
  next_cutoff,    \* next_cutoff * len(ops_slices)
  slice_idx,
  elapsed,        \* the worker's latest `elapsed`
  counted_idx,    \* history: index incremented by the latest iteration, -1 if none
  prev_elapsed,   \* history: largest `elapsed` measured by the earlier iterations
  \* ---- main / PerformanceTest
  pc,             \* position in main() and run_all_tests()
  cpu_mode,       \* --cpu-mode
  skip_drive,     \* --skip-drive
  workers,        \* worker count of the multi-core test, after defaulting
  temp_dir,       \* TRUE while self.temp_dir exists on disk
  files,          \* names of the files inside self.temp_dir
  results,        \* self.results: each key None or <<record>>; of the CPU
                  \* record the fields mode, duration, score, workers, slice_count
  pool,           \* the process pool: "none", "live", "terminated"
  tasks,          \* tasks handed to the pool: a bag of records [slice, state]
  i,              \* slice loop index of the CPU test
  total_ops,
  total_wall_time,
  min_results,    \* history: fewest results aggregated into one slice, None if no slice yet
  exc,            \* exception in flight or caught: "none", "KeyboardInterrupt", "Exception"
  cause,          \* what the Exception is
  reported,       \* what has been printed: "interrupted", <<"error", cause>>, "results"
  write_time, read_time, write_speed, read_speed,
  random_read_time, random_write_time, read_iops, write_iops,
  cpu_score, drive_score, overall_score,
  cleanup_ran,    \* history: cleanup() has been called
  worker_failed,  \* history: a worker failed to start, raised or crashed
  exit_status     \* None while the process runs, then <<status>>

wvars == <<wpc, duration, num_slices, now, prime_count, operations, current,
           ops_slices, next_cutoff, slice_idx, elapsed, counted_idx, prev_elapsed>>

svars == <<pc, cpu_mode, skip_drive, workers, temp_dir, files, results, pool,
           tasks, i, total_ops, total_wall_time, min_results, exc, cause,
           reported, write_time, read_time, write_speed, read_speed,
           random_read_time, random_write_time, read_iops, write_iops,
           cpu_score, drive_score, overall_score, cleanup_ran, worker_failed,
           exit_status>>

vars == <<wvars, svars>>

\* ------------------------------------------------------------ pure helpers
Max(a, b) == IF a >= b THEN a ELSE b
Min(a, b) == IF a <= b THEN a ELSE b

RECURSIVE SumSeq(_)
SumSeq(s) == IF s = <<>> THEN 0 ELSE Head(s) + SumSeq(Tail(s))

\* int(math.sqrt(n)) for n >= 0
ISqrt(n) == CHOOSE r \in 0..n : r * r <= n /\ (r + 1) * (r + 1) > n

\* _is_prime: trial division up to the integer square root
_is_prime(n) ==
  IF n < 2 THEN FALSE
  ELSE \A j \in 2..ISqrt(n) : n % j # 0

\* the advance of time.time() between two readings in the worker (the clock
\* is taken not to step back while the worker runs)
ClockSteps == 0..MaxStep

\* len(ops_slices) == max(1, int(num_slices))
SliceLen(k) == Max(1, k)

\* slice_len * len(ops_slices): duration / len if duration > 0 else 1.0
SliceLenScaled(d, k) == IF d > 0 THEN d ELSE SliceLen(k)

\* the inner while of the loop body: advance the slice while elapsed has
\* passed the cutoff and the slice is not the last one
AdvanceOnce(idx, cutoff, el, d, k) ==
  IF el * SliceLen(k) >= cutoff /\ idx < SliceLen(k) - 1
  THEN <<idx + 1, cutoff + SliceLenScaled(d, k)>>
  ELSE <<idx, cutoff>>

RECURSIVE AdvanceSlice(_, _, _, _, _)
AdvanceSlice(idx, cutoff, el, d, k) ==
  IF el * SliceLen(k) >= cutoff /\ idx < SliceLen(k) - 1
  THEN AdvanceSlice(idx + 1, cutoff + SliceLenScaled(d, k), el, d, k)
  ELSE <<idx, cutoff>>

\* ------------------------------------------------------- _cpu_burn_worker
WorkerInit ==
  /\ duration \in 0..MaxDuration
  /\ num_slices \in 0..MaxSlices
  /\ wpc = "test"
  /\ now = 0
  /\ prime_count = 0
  /\ operations = 0
  /\ current = 2
  /\ ops_slices = [j \in 1..SliceLen(num_slices) |-> 0]
  /\ next_cutoff = SliceLenScaled(duration, num_slices)
  /\ slice_idx = 0
  /\ elapsed = 0
  /\ counted_idx = -1
  /\ prev_elapsed = 0

\* while time.time() - start_time < duration
WorkerTest ==
  /\ wpc = "test"
  /\ \E s \in ClockSteps :
       /\ now' = now + s
       /\ wpc' = IF now + s < duration THEN "body" ELSE "exit"
  /\ UNCHANGED <<duration, num_slices, prime_count, operations, current,
                 ops_slices, next_cutoff, slice_idx, elapsed, counted_idx,
                 prev_elapsed, svars>>

\* one iteration of the loop body
WorkerBodyCountsAfterAdvance ==
  /\ wpc = "body"
  /\ operations < MaxIter
  /\ prime_count' = IF _is_prime(current) THEN prime_count + 1 ELSE prime_count
  /\ operations' = operations + 1
  /\ current' = current + 1
  /\ prev_elapsed' = Max(prev_elapsed, elapsed)
  /\ \E s \in ClockSteps :
       LET adv == AdvanceSlice(slice_idx, next_cutoff, now + s,
                               duration, num_slices)
       IN /\ ops_slices' = IF adv[1] = slice_idx
                           THEN [ops_slices EXCEPT ![slice_idx + 1] = @ + 1]
                           ELSE ops_slices
          /\ counted_idx' = slice_idx
          /\ now' = now + s
          /\ elapsed' = now + s
          /\ slice_idx' = adv[1]
          /\ next_cutoff' = adv[2]
  /\ wpc' = "test"
  /\ UNCHANGED <<duration, num_slices, svars>>

WorkerBody ==
  /\ wpc = "body"
  /\ operations < MaxIter
  /\ prime_count' = IF _is_prime(current) THEN prime_count + 1 ELSE prime_count
  /\ operations' = operations + 1
  /\ current' = current + 1
  /\ prev_elapsed' = Max(prev_elapsed, elapsed)
  /\ IF slice_idx < Len(ops_slices)
     THEN \E s \in ClockSteps :
            LET adv == AdvanceSlice(slice_idx, next_cutoff, now + s,
                                    duration, num_slices)
            IN /\ ops_slices' = [ops_slices EXCEPT ![slice_idx + 1] = @ + 1]
               /\ counted_idx' = slice_idx
               /\ now' = now + s
               /\ elapsed' = now + s
               /\ slice_idx' = adv[1]
               /\ next_cutoff' = adv[2]
     ELSE /\ counted_idx' = -1
          /\ UNCHANGED <<ops_slices, now, elapsed, slice_idx, next_cutoff>>
  /\ wpc' = "test"
  /\ UNCHANGED <<duration, num_slices, svars>>

\* elapsed = time.time() - start_time; return the result dict
WorkerReturn ==
  /\ wpc = "exit"
  /\ \E s \in ClockSteps :
       /\ now' = now + s
       /\ elapsed' = now + s
  /\ wpc' = "done"
  /\ UNCHANGED <<duration, num_slices, prime_count, operations, current,
                 ops_slices, next_cutoff, slice_idx, counted_idx, prev_elapsed,
                 svars>>

\* ------------------------------------------------- optional values, rates
None == <<>>
Some(v) == <<v>>

\* int(): truncation toward zero of the fraction n / d, d > 0
Trunc(n, d) == IF n >= 0 THEN n \div d ELSE -((-n) \div d)

\* round(): the nearest integer to n / 2, a tie going to the even one
RoundHalf(n) ==
  LET q == n \div 2
  IN IF n % 2 = 0 THEN q ELSE IF q % 2 = 0 THEN q ELSE q + 1

\* size / t for t # 0, as a fraction with a positive denominator
Rate(size, t) == IF t > 0 THEN <<size, t>> ELSE <<-size, -t>>
RAdd(a, b) == <<a[1] * b[2] + b[1] * a[2], a[2] * b[2]>>
RDiv(a, n) == <<a[1], a[2] * n>>

\* measured times: time.time() differences, a zero reading included (the
\* clock is taken not to step back)
Elapsed == 0..MaxElapsed
\* what one call of _cpu_burn_worker(slice_dur, 1) reports
WorkerOps == 0..MaxOps
WorkerElapsed == 0..MaxWorkerElapsed

SeqFile == "sequential_test.dat"
RandFile == "random_test.dat"

\* int(total / t) if t > 0 else 0
CpuScore(total, t) == IF t > 0 THEN Trunc(total, t) ELSE 0

\* calculate_drive_score
calculate_drive_score(seq, rand) ==
  LET x == RAdd(RDiv(RAdd(seq.write_speed_mb_s, seq.read_speed_mb_s), 2),
                RDiv(RAdd(rand.read_iops, rand.write_iops), 100))
  IN Trunc(x[1], x[2])

\* overall_score = int((cpu_score + drive_score) / 2)
OverallRounded(c, d) == RoundHalf(c + d)

OverallScore(c, d) == Trunc(c + d, 2)

\* ------------------------------------------------------------ the suite
\* positions inside the try block of run_all_tests
PoolPcs == {"multi_submit", "multi_wait", "multi_leave"}
SeqPcs == {"seq_write", "seq_read", "seq_remove"}
RandPcs == {"rand_create", "rand_read", "rand_write", "rand_iops", "rand_remove"}
TryPcs == {"cpu", "single_loop", "multi_pool", "multi_score", "after_cpu",
           "score", "report"} \cup PoolPcs \cup SeqPcs \cup RandPcs

\* state after main() has parsed the arguments and built PerformanceTest()
SuiteInit ==
  /\ pc = "cpu"
  /\ cpu_mode \in {"single", "multi"}
  /\ skip_drive \in BOOLEAN
  /\ workers \in IF cpu_mode = "multi" THEN 1..MaxWorkers ELSE {1}
  /\ temp_dir = TRUE
  /\ files = {}
  /\ results = [cpu |-> None, sequential |-> None, random |-> None]
  /\ pool = "none"
  /\ tasks = EmptyBag
  /\ i = 0
  /\ total_ops = 0
  /\ total_wall_time = 0
  /\ min_results = None
  /\ exc = "none"
  /\ cause = "none"
  /\ reported = {}
  /\ write_time = None /\ read_time = None
  /\ write_speed = None /\ read_speed = None
  /\ random_read_time = None /\ random_write_time = None
  /\ read_iops = None /\ write_iops = None
  /\ cpu_score = None /\ drive_score = None /\ overall_score = None
  /\ cleanup_ran = FALSE
  /\ worker_failed = FALSE
  /\ exit_status = None

fsvars == <<temp_dir, files>>
argvars == <<cpu_mode, skip_drive, workers>>
cpuvars == <<i, total_ops, total_wall_time>>
seqvars == <<write_time, read_time, write_speed, read_speed>>
randvars == <<random_read_time, random_write_time, read_iops, write_iops>>
scorevars == <<cpu_score, drive_score, overall_score>>
endvars == <<cleanup_ran, exit_status>>

\* an exception leaves the workload for the except clauses of run_all_tests:
\* the locals of the workload are gone
Raise(kind, what) ==
  /\ exc' = kind
  /\ cause' = what
  /\ pc' = "except"
  /\ i' = 0 /\ total_ops' = 0 /\ total_wall_time' = 0
  /\ write_time' = None /\ read_time' = None
  /\ write_speed' = None /\ read_speed' = None
  /\ random_read_time' = None /\ random_write_time' = None
  /\ read_iops' = None /\ write_iops' = None

\* if cpu_mode == 'multi': ... else: ...
CpuDispatch ==
  /\ pc = "cpu"
  /\ pc' = IF cpu_mode = "multi" THEN "multi_pool" ELSE "single_loop"
  /\ UNCHANGED <<wvars, argvars, fsvars, results, pool, tasks, cpuvars,
                 min_results, exc, cause, reported, seqvars, randvars,
                 scorevars, endvars, worker_failed>>

\* cpu_single_core_test: one slice, res = _cpu_burn_worker(slice_dur, 1)
SingleSlice ==
  /\ pc = "single_loop"
  /\ i < Slices
  /\ \E ops \in WorkerOps : total_ops' = total_ops + ops
  /\ i' = i + 1
  /\ UNCHANGED <<wvars, pc, argvars, fsvars, results, pool, tasks,
                 total_wall_time, min_results, exc, cause, reported, seqvars,
                 randvars, scorevars, endvars, worker_failed>>

\* cpu_single_core_test: cpu_time, cpu_score, self.results['cpu']; return
SingleScore ==
  /\ pc = "single_loop"
  /\ i = Slices
  /\ \E cpu_time \in Elapsed :
       results' = [results EXCEPT !.cpu =
                     Some([mode |-> "single", duration |-> cpu_time,
                           score |-> CpuScore(total_ops, cpu_time),
                           workers |-> 1, slice_count |-> i])]
  /\ pc' = "after_cpu"
  /\ i' = 0 /\ total_ops' = 0
  /\ UNCHANGED <<wvars, argvars, fsvars, pool, tasks, total_wall_time,
                 min_results, exc, cause, reported, seqvars, randvars,
                 scorevars, endvars, worker_failed>>

\* ---- cpu_multi_core_test
RECURSIVE SumOps(_, _)
SumOps(res, S) ==
  IF S = {} THEN 0
  ELSE LET w == CHOOSE x \in S : TRUE IN res[w][1] + SumOps(res, S \ {w})

RECURSIVE MaxDur(_, _)
MaxDur(res, S) ==
  LET w == CHOOSE x \in S : TRUE
  IN IF S = {w} THEN res[w][2] ELSE Max(res[w][2], MaxDur(res, S \ {w}))

\* <<slice_ops, slice_time>> of every list of n results starmap can return
\* (slice_time of an empty list: slice_dur, one tick)
SliceAggregates(n) ==
  {<<SumOps(res, 1..n), IF n = 0 THEN 1 ELSE MaxDur(res, 1..n)>> :
     res \in [1..n -> WorkerOps \X WorkerElapsed]}

\* the tasks of one starmap call are alike, (slice_dur, 1) each: the pool's
\* tasks are kept as a bag of [slice, state], state being "queued",
\* "running", "done", "raised" or "lost"
Task(n, st) == [slice |-> n, state |-> st]

SliceTasks(n) == {t \in BagToSet(tasks) : t.slice = n}

SetState(t, st) == (tasks (-) SetToBag({t})) (+) SetToBag({Task(t.slice, st)})

\* pool.starmap blocks until every task of the call has delivered a result
\* or an exception; a task whose process died delivers neither
StarmapFirstResult(ts) == \E t \in ts : t.state \in {"done", "raised"}

StarmapReady(ts) == \A t \in ts : t.state \in {"done", "raised"}

\* with ctx.Pool(processes=workers) as pool: starting the worker processes
MultiPoolCreate ==
  /\ pc = "multi_pool"
  /\ \/ /\ pool' = "live"
        /\ pc' = "multi_submit"
        /\ UNCHANGED <<exc, cause, worker_failed, cpuvars, seqvars, randvars>>
     \/ /\ Raise("Exception", "OSError: cannot start worker process")
        /\ worker_failed' = TRUE
        /\ UNCHANGED pool
  /\ UNCHANGED <<wvars, argvars, fsvars, results, tasks, min_results, reported,
                 scorevars, endvars>>

\* pool.starmap(_cpu_burn_worker, [(slice_dur, 1)] * workers): hand out the tasks
MultiSubmit ==
  /\ pc = "multi_submit"
  /\ i < Slices
  /\ tasks' = tasks (+) [t \in {Task(i, "queued")} |-> workers]
  /\ pc' = "multi_wait"
  /\ UNCHANGED <<wvars, argvars, fsvars, results, pool, cpuvars, min_results,
                 exc, cause, reported, seqvars, randvars, scorevars, endvars,
                 worker_failed>>

\* a worker process of the pool takes a task
TaskStart(t) ==
  /\ pool = "live"
  /\ t.state = "queued"
  /\ tasks' = SetState(t, "running")
  /\ UNCHANGED <<wvars, pc, argvars, fsvars, results, pool, cpuvars,
                 min_results, exc, cause, reported, seqvars, randvars,
                 scorevars, endvars, worker_failed>>

\* _cpu_burn_worker returns in the worker process
TaskFinish(t) ==
  /\ pool = "live"
  /\ t.state = "running"
  /\ tasks' = SetState(t, "done")
  /\ UNCHANGED <<wvars, pc, argvars, fsvars, results, pool, cpuvars,
                 min_results, exc, cause, reported, seqvars, randvars,
                 scorevars, endvars, worker_failed>>

\* _cpu_burn_worker raises in the worker process
TaskRaise(t) ==
  /\ pool = "live"
  /\ t.state = "running"
  /\ tasks' = SetState(t, "raised")
  /\ worker_failed' = TRUE
  /\ UNCHANGED <<wvars, pc, argvars, fsvars, results, pool, cpuvars,
                 min_results, exc, cause, reported, seqvars, randvars,
                 scorevars, endvars>>

\* the worker process dies while it runs the task: the pool starts another
\* process, the task's result never arrives
TaskCrash(t) ==
  /\ pool = "live"
  /\ t.state = "running"
  /\ tasks' = SetState(t, "lost")
  /\ worker_failed' = TRUE
  /\ UNCHANGED <<wvars, pc, argvars, fsvars, results, pool, cpuvars,
                 min_results, exc, cause, reported, seqvars, randvars,
                 scorevars, endvars>>

\* starmap returns the list of results, one per delivered task; the slice is
\* aggregated: sum of the operations, max of the durations
MultiCollect ==
  /\ pc = "multi_wait"
  /\ StarmapReady(SliceTasks(i))
  /\ Task(i, "raised") \notin SliceTasks(i)
  /\ LET n == CopiesIn(Task(i, "done"), tasks)
     IN /\ \E agg \in SliceAggregates(n) :
             /\ total_ops' = total_ops + agg[1]
             /\ total_wall_time' = total_wall_time + agg[2]
        /\ min_results' = IF min_results = None THEN Some(n)
                          ELSE Some(Min(min_results[1], n))
        /\ tasks' = tasks (-) [t \in {Task(i, "done")} |-> n]
  /\ i' = i + 1
  /\ pc' = "multi_submit"
  /\ UNCHANGED <<wvars, argvars, fsvars, results, pool, exc, cause, reported,
                 seqvars, randvars, scorevars, endvars, worker_failed>>

\* starmap re-raises the exception of a task; the totals of the slices so
\* far are not read again
MultiRaise ==
  /\ pc = "multi_wait"
  /\ StarmapReady(SliceTasks(i))
  /\ Task(i, "raised") \in SliceTasks(i)
  /\ exc' = "Exception"
  /\ cause' = "exception raised by a worker"
  /\ pc' = "multi_leave"
  /\ total_ops' = 0 /\ total_wall_time' = 0
  /\ UNCHANGED <<wvars, argvars, fsvars, results, pool, tasks, i,
                 min_results, reported, seqvars, randvars, scorevars, endvars,
                 worker_failed>>

\* leaving the with block, normally or by an exception in flight, calls
\* pool.terminate(); the exception then leaves cpu_multi_core_test
MultiLeaveKeepPool ==
  /\ pc = "multi_leave" \/ (pc = "multi_submit" /\ i = Slices)
  /\ pool' = IF exc = "none" THEN "terminated" ELSE pool
  /\ tasks' = IF exc = "none" THEN EmptyBag ELSE tasks
  /\ IF exc = "none"
     THEN /\ pc' = "multi_score"
          /\ UNCHANGED <<exc, cause, cpuvars, seqvars, randvars>>
     ELSE Raise(exc, cause)
  /\ UNCHANGED <<wvars, argvars, fsvars, results, min_results, reported,
                 scorevars, endvars, worker_failed>>

MultiLeave ==
  /\ pc = "multi_leave" \/ (pc = "multi_submit" /\ i = Slices)
  /\ pool' = "terminated"
  /\ tasks' = EmptyBag
  /\ IF exc = "none"
     THEN /\ pc' = "multi_score"
          /\ UNCHANGED <<exc, cause, cpuvars, seqvars, randvars>>
     ELSE Raise(exc, cause)
  /\ UNCHANGED <<wvars, argvars, fsvars, results, min_results, reported,
                 scorevars, endvars, worker_failed>>

\* cpu_multi_core_test: cpu_score, self.results['cpu']; return
MultiScore ==
  /\ pc = "multi_score"
  /\ results' = [results EXCEPT !.cpu =
                   Some([mode |-> "multi", duration |-> total_wall_time,
                         score |-> CpuScore(total_ops, total_wall_time),
                         workers |-> workers, slice_count |-> i])]
  /\ pc' = "after_cpu"
  /\ i' = 0 /\ total_ops' = 0 /\ total_wall_time' = 0
  /\ UNCHANGED <<wvars, argvars, fsvars, pool, tasks, min_results, exc, cause,
                 reported, seqvars, randvars, scorevars, endvars, worker_failed>>

\* if not skip_drive: ...
AfterCpu ==
  /\ pc = "after_cpu"
  /\ pc' = IF skip_drive THEN "score" ELSE "seq_write"
  /\ UNCHANGED <<wvars, argvars, fsvars, results, pool, tasks, cpuvars,
                 min_results, exc, cause, reported, seqvars, randvars,
                 scorevars, endvars, worker_failed>>

\* ---- drive_sequential_test
\* sequential write phase: open(test_file, 'wb'), the writes, write_speed
SeqWrite ==
  /\ pc = "seq_write"
  /\ \/ /\ Raise("Exception", "OSError: cannot create sequential_test.dat")
        /\ UNCHANGED files
     \/ /\ files' = files \cup {SeqFile}
        /\ Raise("Exception", "OSError: write failed")
     \/ /\ files' = files \cup {SeqFile}
        /\ \E t \in Elapsed :
             IF t = 0
             THEN Raise("Exception", "ZeroDivisionError")
             ELSE /\ write_time' = Some(t)
                  /\ write_speed' = Some(Rate(FileSizeMb, t))
                  /\ pc' = "seq_read"
                  /\ UNCHANGED <<exc, cause, cpuvars, read_time, read_speed, randvars>>
  /\ UNCHANGED <<wvars, argvars, temp_dir, results, pool, tasks, min_results,
                 reported, scorevars, endvars, worker_failed>>

\* sequential read phase: open(test_file, 'rb'), the reads, read_speed
SeqRead ==
  /\ pc = "seq_read"
  /\ \/ Raise("Exception", "OSError: read failed")
     \/ \E t \in Elapsed :
          IF t = 0
          THEN Raise("Exception", "ZeroDivisionError")
          ELSE /\ read_time' = Some(t)
               /\ read_speed' = Some(Rate(FileSizeMb, t))
               /\ pc' = "seq_remove"
               /\ UNCHANGED <<exc, cause, cpuvars, write_time, write_speed, randvars>>
  /\ UNCHANGED <<wvars, argvars, fsvars, results, pool, tasks, min_results,
                 reported, scorevars, endvars, worker_failed>>

\* os.remove(test_file); self.results['sequential'] = ...; return
SeqRemove ==
  /\ pc = "seq_remove"
  /\ files' = files \ {SeqFile}
  /\ results' = [results EXCEPT !.sequential =
                   Some([write_time |-> write_time[1], read_time |-> read_time[1],
                         write_speed_mb_s |-> write_speed[1],
                         read_speed_mb_s |-> read_speed[1],
                         file_size_mb |-> FileSizeMb])]
  /\ write_time' = None /\ read_time' = None
  /\ write_speed' = None /\ read_speed' = None
  /\ pc' = "rand_create"
  /\ UNCHANGED <<wvars, argvars, temp_dir, pool, tasks, cpuvars, min_results,
                 exc, cause, reported, randvars, scorevars, endvars,
                 worker_failed>>

\* ---- drive_random_test
\* create the 50 MB file of random data
RandCreate ==
  /\ pc = "rand_create"
  /\ \/ /\ Raise("Exception", "OSError: cannot create random_test.dat")
        /\ UNCHANGED files
     \/ /\ files' = files \cup {RandFile}
        /\ Raise("Exception", "OSError: write failed")
     \/ /\ files' = files \cup {RandFile}
        /\ pc' = "rand_read"
        /\ UNCHANGED <<exc, cause, cpuvars, seqvars, randvars>>
  /\ UNCHANGED <<wvars, argvars, temp_dir, results, pool, tasks, min_results,
                 reported, scorevars, endvars, worker_failed>>

\* random read phase
RandRead ==
  /\ pc = "rand_read"
  /\ \/ Raise("Exception", "OSError: read failed")
     \/ /\ \E t \in Elapsed : random_read_time' = Some(t)
        /\ pc' = "rand_write"
        /\ UNCHANGED <<exc, cause, cpuvars, seqvars, random_write_time,
                       read_iops, write_iops>>
  /\ UNCHANGED <<wvars, argvars, fsvars, results, pool, tasks, min_results,
                 reported, scorevars, endvars, worker_failed>>

\* random write phase
RandWrite ==
  /\ pc = "rand_write"
  /\ \/ Raise("Exception", "OSError: write failed")
     \/ /\ \E t \in Elapsed : random_write_time' = Some(t)
        /\ pc' = "rand_iops"
        /\ UNCHANGED <<exc, cause, cpuvars, seqvars, random_read_time,
                       read_iops, write_iops>>
  /\ UNCHANGED <<wvars, argvars, fsvars, results, pool, tasks, min_results,
                 reported, scorevars, endvars, worker_failed>>

\* read_iops = num_operations / random_read_time, then write_iops
RandIops ==
  /\ pc = "rand_iops"
  /\ IF random_read_time[1] = 0 \/ random_write_time[1] = 0
     THEN Raise("Exception", "ZeroDivisionError")
     ELSE /\ read_iops' = Some(Rate(NumOperations, random_read_time[1]))
          /\ write_iops' = Some(Rate(NumOperations, random_write_time[1]))
          /\ pc' = "rand_remove"
          /\ UNCHANGED <<exc, cause, cpuvars, seqvars, random_read_time,
                         random_write_time>>
  /\ UNCHANGED <<wvars, argvars, fsvars, results, pool, tasks, min_results,
                 reported, scorevars, endvars, worker_failed>>

\* os.remove(test_file); self.results['random'] = ...; return
RandRemove ==
  /\ pc = "rand_remove"
  /\ files' = files \ {RandFile}
  /\ results' = [results EXCEPT !.random =
                   Some([read_time |-> random_read_time[1],
                         write_time |-> random_write_time[1],
                         read_iops |-> read_iops[1], write_iops |-> write_iops[1],
                         operations |-> NumOperations])]
  /\ random_read_time' = None /\ random_write_time' = None
  /\ read_iops' = None /\ write_iops' = None
  /\ pc' = "score"
  /\ UNCHANGED <<wvars, argvars, temp_dir, pool, tasks, cpuvars, min_results,
                 exc, cause, reported, seqvars, scorevars, endvars,
                 worker_failed>>

\* ---- run_all_tests: scores, report, except clauses, finally
\* cpu_score, drive_score, overall_score
Score ==
  /\ pc = "score"
  /\ cpu_score' = Some(results.cpu[1].score)
  /\ IF ~skip_drive
     THEN LET d == calculate_drive_score(results.sequential[1], results.random[1])
          IN /\ drive_score' = Some(d)
             /\ overall_score' = Some(OverallScore(results.cpu[1].score, d))
     ELSE /\ drive_score' = None
          /\ overall_score' = Some(results.cpu[1].score)
  /\ pc' = "report"
  /\ UNCHANGED <<wvars, argvars, fsvars, results, pool, tasks, cpuvars,
                 min_results, exc, cause, reported, seqvars, randvars, endvars,
                 worker_failed>>

\* the detailed breakdown and the final results are printed
Report ==
  /\ pc = "report"
  /\ reported' = reported \cup {"results"}
  /\ pc' = "finally"
  /\ UNCHANGED <<wvars, argvars, fsvars, results, pool, tasks, cpuvars,
                 min_results, exc, cause, seqvars, randvars, scorevars, endvars,
                 worker_failed>>

\* a user interrupt (KeyboardInterrupt) anywhere inside the try block; inside
\* the with block it first leaves the with block
Interrupt ==
  /\ pc \in TryPcs
  /\ exc = "none"
  /\ IF pc \in PoolPcs
     THEN /\ exc' = "KeyboardInterrupt"
          /\ pc' = "multi_leave"
          /\ total_ops' = 0 /\ total_wall_time' = 0
          /\ UNCHANGED <<cause, i, seqvars, randvars>>
     ELSE Raise("KeyboardInterrupt", cause)
  /\ UNCHANGED <<wvars, argvars, fsvars, results, pool, tasks, min_results,
                 reported, scorevars, endvars, worker_failed>>

\* except KeyboardInterrupt: ... / except Exception as e: ...
Except ==
  /\ pc = "except"
  /\ reported' = reported \cup
       (IF exc = "KeyboardInterrupt" THEN {"interrupted"} ELSE {"error: " \o cause})
  /\ pc' = "finally"
  /\ UNCHANGED <<wvars, argvars, fsvars, results, pool, tasks, cpuvars,
                 min_results, exc, cause, seqvars, randvars, scorevars, endvars,
                 worker_failed>>

\* finally: self.cleanup(), shutil.rmtree(self.temp_dir)
FinallyOnSuccessOnly ==
  /\ pc = "finally"
  /\ IF exc = "none"
     THEN /\ temp_dir' = FALSE
          /\ files' = {}
          /\ cleanup_ran' = TRUE
     ELSE UNCHANGED <<temp_dir, files, cleanup_ran>>
  /\ pc' = "return"
  /\ UNCHANGED <<wvars, argvars, results, pool, tasks, cpuvars, min_results,
                 exc, cause, reported, seqvars, randvars, scorevars,
                 exit_status, worker_failed>>

Finally ==
  /\ pc = "finally"
  /\ temp_dir' = FALSE
  /\ files' = {}
  /\ cleanup_ran' = TRUE
  /\ pc' = "return"
  /\ UNCHANGED <<wvars, argvars, results, pool, tasks, cpuvars, min_results,
                 exc, cause, reported, seqvars, randvars, scorevars,
                 exit_status, worker_failed>>

\* run_all_tests returns to main(), main() returns: the process exits
MainReturn ==
  /\ pc = "return"
  /\ exit_status' = Some(0)
  /\ pc' = "exited"
  /\ UNCHANGED <<wvars, argvars, fsvars, results, pool, tasks, cpuvars,
                 min_results, exc, cause, reported, seqvars, randvars,
                 scorevars, cleanup_ran, worker_failed>>

\* while the suite runs the worker model stands still, and conversely
WorkerIdle ==
  /\ wpc = "idle" /\ duration = 0 /\ num_slices = 0 /\ now = 0
  /\ prime_count = 0 /\ operations = 0 /\ current = 2 /\ ops_slices = <<>>
  /\ next_cutoff = 0 /\ slice_idx = 0 /\ elapsed = 0 /\ counted_idx = -1
  /\ prev_elapsed = 0

SuiteIdle ==
  /\ pc = "idle" /\ cpu_mode = "single" /\ skip_drive = TRUE /\ workers = 1
  /\ temp_dir = FALSE /\ files = {}
  /\ results = [cpu |-> None, sequential |-> None, random |-> None]
  /\ pool = "none" /\ tasks = EmptyBag /\ i = 0 /\ total_ops = 0
  /\ total_wall_time = 0 /\ min_results = None /\ exc = "none"
  /\ cause = "none" /\ reported = {}
  /\ write_time = None /\ read_time = None
  /\ write_speed = None /\ read_speed = None
  /\ random_read_time = None /\ random_write_time = None
  /\ read_iops = None /\ write_iops = None
  /\ cpu_score = None /\ drive_score = None /\ overall_score = None
  /\ cleanup_ran = FALSE /\ worker_failed = FALSE /\ exit_status = None

Init == SuiteInit /\ WorkerIdle
Next ==
  \/ CpuDispatch \/ SingleSlice \/ SingleScore
  \/ MultiPoolCreate \/ MultiSubmit
  \/ \E t \in BagToSet(tasks) : TaskStart(t)
  \/ \E t \in BagToSet(tasks) : TaskFinish(t)
  \/ \E t \in BagToSet(tasks) : TaskRaise(t)
  \/ \E t \in BagToSet(tasks) : TaskCrash(t)
  \/ MultiCollect \/ MultiRaise \/ MultiLeave \/ MultiScore
  \/ AfterCpu
  \/ SeqWrite \/ SeqRead \/ SeqRemove
  \/ RandCreate \/ RandRead \/ RandWrite \/ RandIops \/ RandRemove
  \/ Score \/ Report \/ Except \/ Finally \/ MainReturn
  \/ Interrupt
Spec == Init /\ [][Next]_vars

\* the program and its worker processes keep running; nothing makes the user
\* interrupt
ProgramStep == Next /\ ~Interrupt
FairSpec == Spec /\ WF_vars(ProgramStep)

InitWorker == WorkerInit /\ SuiteIdle
NextWorker == WorkerTest \/ WorkerBody \/ WorkerReturn
SpecWorker == InitWorker /\ [][NextWorker]_vars

\* ------------------------------------------------------------------ claims

\* C1: for every duration d > 0 and slice count k >= 1 the slice counters of
\* _cpu_burn_worker(d, k) are exactly k entries whose sum is the operations
\* count, at every point of the loop and in the returned result.
C1_SlicesSumToOperations ==
  (duration > 0 /\ num_slices >= 1) =>
     /\ Len(ops_slices) = num_slices
     /\ SumSeq(ops_slices) = operations

\* C1 witness: a returned result with several slices, iterations counted in
\* more than one of them.
C1_Witness ==
  /\ wpc = "done" /\ duration > 0 /\ num_slices >= 2 /\ operations >= 2
  /\ \E a, b \in 1..Len(ops_slices) : a # b /\ ops_slices[a] > 0 /\ ops_slices[b] > 0

\* C10 as stated: the counter an iteration increments is the one of the
\* sub-interval its own completion time falls into,
\* min(floor(elapsed / (d / k)), k - 1).
C10_IndexOfOwnElapsed ==
  (duration > 0 /\ num_slices >= 1 /\ counted_idx # -1 /\ wpc # "done") =>
     counted_idx = Min((elapsed * num_slices) \div duration, num_slices - 1)

\* C10 amended: the counter an iteration increments is the one selected by
\* the elapsed time measured when the earlier iterations completed (the
\* largest such measurement, 0 before the first iteration):
\* min(floor(prev_elapsed / (d / k)), k - 1).
C10_IndexOfPreviousElapsed ==
  (duration > 0 /\ num_slices >= 1 /\ counted_idx # -1 /\ wpc # "done") =>
     counted_idx = Min((prev_elapsed * num_slices) \div duration, num_slices - 1)

\* C10 witness: an iteration counted in a later slice than the first, whose
\* own completion time already lies in yet another sub-interval.
C10_Witness ==
  /\ duration > 0 /\ num_slices >= 3 /\ wpc = "test"
  /\ counted_idx >= 1
  /\ counted_idx # Min((elapsed * num_slices) \div duration, num_slices - 1)

\* C2: after drive_sequential_test has returned or raised an error (in the
\* write phase, the read phase or a rate computation), sequential_test.dat
\* does not exist on disk.
C2_SequentialFileRemoved ==
  (pc \notin SeqPcs /\ exc # "KeyboardInterrupt") => SeqFile \notin files

C4_SlicesSequential ==
  /\ \A t \in BagToSet(tasks) : t.slice = i
  /\ \A t, u \in BagToSet(tasks) :
        (u.state # "queued" /\ t.slice # u.slice) => t.slice > u.slice
  /\ min_results # None => min_results[1] = workers

\* C4 witness: in a later slice than the first, two workers run at once.
C4_Witness ==
  /\ pc = "multi_wait" /\ i >= 1 /\ min_results = Some(workers)
  /\ CopiesIn(Task(i, "running"), tasks) >= 2

\* C5: once a worker process has failed to start, raised or crashed, the run
\* eventually ends (with the failure, or a user interrupt, reported).
C5_WorkerFailureEndsRun ==
  worker_failed ~> (pc = "exited" /\ exc # "none")

\* C6: the process pool exists only inside cpu_multi_core_test: none before
\* the invocation creates it, none live once the invocation is left on any
\* path, torn down before cleanup() and before the process exits.
C6_PoolScoped ==
  /\ pc \in {"cpu", "multi_pool"} => pool = "none"
  /\ pc \notin PoolPcs => pool # "live"
  /\ (cleanup_ran \/ exit_status # None) => pool # "live"
  /\ cpu_mode = "single" => pool = "none"

\* C6 witness: a user interrupt during a slice has left the with block, the
\* pool is terminated, cleanup() has not run yet.
C6_Witness ==
  /\ pc = "except" /\ exc = "KeyboardInterrupt" /\ pool = "terminated"
  /\ ~cleanup_ran /\ temp_dir

\* C7: a measured time of zero (or less) never raises an error and gives the
\* rate 0: CPU ops/sec, sequential MB/s, random IOPS.
C7_RatesFailClosed ==
  /\ cause # "ZeroDivisionError"
  /\ (results.cpu # None /\ results.cpu[1].duration <= 0) => results.cpu[1].score = 0
  /\ (write_time # None /\ write_time[1] <= 0) => write_speed = Some(<<0, 1>>)
  /\ (read_time # None /\ read_time[1] <= 0) => read_speed = Some(<<0, 1>>)
  /\ (random_read_time # None /\ random_read_time[1] <= 0 /\ pc = "rand_remove")
        => read_iops = Some(<<0, 1>>)
  /\ (random_write_time # None /\ random_write_time[1] <= 0 /\ pc = "rand_remove")
        => write_iops = Some(<<0, 1>>)

\* C8 as stated: overall_score is (cpu_score + drive_score) / 2 rounded to
\* the nearest integer when the drive tests ran, cpu_score when skipped.
C8_OverallIsRounded ==
  overall_score # None =>
    IF skip_drive
    THEN overall_score = cpu_score /\ drive_score = None
    ELSE overall_score[1] = RoundHalf(cpu_score[1] + drive_score[1])

\* C8 amended: overall_score is (cpu_score + drive_score) / 2 with the
\* fraction dropped (truncated toward zero) when the drive tests ran, and
\* cpu_score exactly, with no drive_score, when they were skipped.
C8_OverallIsTruncated ==
  overall_score # None =>
    IF skip_drive
    THEN overall_score = cpu_score /\ drive_score = None
    ELSE LET sum == cpu_score[1] + drive_score[1]
             o == overall_score[1]
         IN IF sum >= 0 THEN 2 * o <= sum /\ sum <= 2 * o + 1
                        ELSE 2 * o - 1 <= sum /\ sum <= 2 * o

\* C8 witness: the drive tests ran and cpu_score + drive_score is odd.
C8_Witness ==
  /\ overall_score # None /\ ~skip_drive
  /\ (cpu_score[1] + drive_score[1]) % 2 = 1
  /\ cpu_score[1] > 0

\* C9: when a workload has failed, the run ends with the error and its cause
\* reported, cleanup() run, no score computed, and an exit status that is
\* not the one of a normal completion.
C9_FailureExitsNonZero ==
  (pc = "exited" /\ exc = "Exception") =>
     /\ ("error: " \o cause) \in reported
     /\ cleanup_ran
     /\ overall_score = None
     /\ exit_status # Some(0)

====
